---- MODULE Spec2Model ----
(***************************************************************************)
(* Fixed-rate mortgage calculator (mortgage.py).                           *)
(*                                                                         *)
(* The program computes with Python floats (IEEE-754 binary64) and Python  *)
(* ints.  A float is modelled exactly: a record [s, m, e] standing for     *)
(* (-1)^s * m * 2^e, with m a natural number of at most Precision bits     *)
(* kept as a little-endian sequence of limbs of LimbBits bits, odd unless  *)
(* the value is zero.  Every arithmetic operation computes the exact       *)
(* result and rounds it to nearest, ties to even, as the hardware does.    *)
(* Results below 2^MinExp lose precision and underflow to zero as in the   *)
(* hardware (gradual underflow); overflow to infinity is not modelled: the *)
(* values of this model stay below 2^1024.                                 *)
(***************************************************************************)
EXTENDS Integers, Sequences, FiniteSets, TLC

Precision == 53
MinExp == -1074
LimbBits == 15
Base == 32768

Max(a, b) == IF a > b THEN a ELSE b
Min(a, b) == IF a < b THEN a ELSE b

(* The operators of the arithmetic are the arms of one recursive operator,   *)
(* Arith, so that an operator is expanded once wherever it is used.          *)
RECURSIVE Arith(_, _)

(* ---------------- natural numbers as limb sequences ---------------- *)

Limb(a, i) == IF i >= 1 /\ i <= Len(a) THEN a[i] ELSE 0

StripLen(a) ==
  IF \A i \in 1..Len(a) : a[i] = 0 THEN 0
  ELSE CHOOSE i \in 1..Len(a) : a[i] # 0 /\ \A j \in (i + 1)..Len(a) : a[j] = 0

Strip(a) == SubSeq(a, 1, StripLen(a))

IntBitLen(x) == CHOOSE k \in 0..LimbBits : 2^k > x /\ (k = 0 \/ 2^(k - 1) <= x)

BitLen(a) == IF a = <<>> THEN 0 ELSE (Len(a) - 1) * LimbBits + IntBitLen(a[Len(a)])

BBit(a, j) == (Limb(a, (j \div LimbBits) + 1) \div (2^(j % LimbBits))) % 2

BLowZero(a, k) ==
  /\ \A i \in 1..Min(Len(a), k \div LimbBits) : a[i] = 0
  /\ (Limb(a, (k \div LimbBits) + 1) % (2^(k % LimbBits))) = 0

BTrailingZeros(a) ==
  LET i == CHOOSE k \in 1..Len(a) : a[k] # 0 /\ \A j \in 1..(k - 1) : a[j] = 0
      t == CHOOSE k \in 0..LimbBits : (a[i] % (2^(k + 1))) # 0 /\ (a[i] % (2^k)) = 0
  IN  (i - 1) * LimbBits + t

BLess(a, b) ==
  \/ Len(a) < Len(b)
  \/ /\ Len(a) = Len(b)
     /\ \E i \in 1..Len(a) : a[i] < b[i] /\ \A j \in (i + 1)..Len(a) : a[j] = b[j]

Zeros(n) == [i \in 1..n |-> 0]

Carry(d, lo, hi, c) == Arith("Carry", <<d, lo, hi, c>>)
BNorm(d) == Arith("BNorm", <<d>>)
BAdd(a, b) == Arith("BAdd", <<a, b>>)
BSub(a, b) == Arith("BSub", <<a, b>>)
ColSum(a, b, k, lo, hi) == Arith("ColSum", <<a, b, k, lo, hi>>)
BMul(a, b) == Arith("BMul", <<a, b>>)
BShr(a, k) == Arith("BShr", <<a, k>>)
BShl(a, k) == Arith("BShl", <<a, k>>)
DivLimbs(R, D, j) == Arith("DivLimbs", <<R, D, j>>)
BDivMod(a, b) == Arith("BDivMod", <<a, b>>)
BPow(a, n) == Arith("BPow", <<a, n>>)
BFromNat(k) == Arith("BFromNat", <<k>>)
BToNat(a) == Arith("BToNat", <<a>>)

(* ---------------- binary64 ---------------- *)

FZero == [s |-> 0, m |-> <<>>, e |-> 0]
FIsZero(a) == a.m = <<>>
FNeg(a) == IF FIsZero(a) THEN a ELSE [a EXCEPT !.s = 1 - a.s]

Canon(s, M, e) == Arith("Canon", <<s, M, e>>)
Round(s, M, e) == Arith("Round", <<s, M, e>>)
FromInt(k) == Arith("FromInt", <<k>>)
MagLess(a, b) == Arith("MagLess", <<a, b>>)
FLt(a, b) == Arith("FLt", <<a, b>>)
FLe(a, b) == ~FLt(b, a)
FAdd(a, b) == Arith("FAdd", <<a, b>>)
FSub(a, b) == FAdd(a, FNeg(b))
FMul(a, b) == Arith("FMul", <<a, b>>)
FDiv(a, b) == Arith("FDiv", <<a, b>>)
FPow(a, n) == Arith("FPow", <<a, n>>)
Ceil(a) == Arith("Ceil", <<a>>)

Arith(op, x) ==
  CASE op = "Carry" ->
         (* digits x[1][x[2]..x[3]] with carry x[4] in: <<limbs, carry out>> *)
         IF x[2] = x[3]
         THEN <<<<(x[1][x[2]] + x[4]) % Base>>, (x[1][x[2]] + x[4]) \div Base>>
         ELSE LET mid == (x[2] + x[3]) \div 2
                  L   == Carry(x[1], x[2], mid, x[4])
                  R   == Carry(x[1], mid + 1, x[3], L[2])
              IN  <<L[1] \o R[1], R[2]>>
    [] op = "BNorm" ->
         IF Len(x[1]) = 0 THEN <<>>
         ELSE LET r == Carry(x[1], 1, Len(x[1]), 0) IN Strip(Append(r[1], r[2]))
    [] op = "BAdd" ->
         BNorm([i \in 1..Max(Len(x[1]), Len(x[2])) |-> Limb(x[1], i) + Limb(x[2], i)])
    [] op = "BSub" ->
         BNorm([i \in 1..Max(Len(x[1]), Len(x[2])) |-> Limb(x[1], i) - Limb(x[2], i)])
    [] op = "ColSum" ->
         (* column x[3] of the product x[1] * x[2], limbs x[4]..x[5] of x[1] *)
         IF x[4] > x[5] THEN 0
         ELSE IF x[4] = x[5]
         THEN ((x[1][x[4]] * Limb(x[2], x[3] - x[4] + 1)) % Base)
              + ((x[1][x[4]] * Limb(x[2], x[3] - x[4])) \div Base)
         ELSE ColSum(x[1], x[2], x[3], x[4], (x[4] + x[5]) \div 2)
              + ColSum(x[1], x[2], x[3], ((x[4] + x[5]) \div 2) + 1, x[5])
    [] op = "BMul" ->
         IF x[1] = <<>> \/ x[2] = <<>> THEN <<>>
         ELSE BNorm([k \in 1..(Len(x[1]) + Len(x[2])) |->
                       ColSum(x[1], x[2], k, Max(1, k - Len(x[2])), Min(Len(x[1]), k))])
    [] op = "BShr" ->
         LET ld == x[2] \div LimbBits
             bs == x[2] % LimbBits
             n  == Len(x[1]) - ld
         IN  IF n <= 0 THEN <<>>
             ELSE Strip([i \in 1..n |->
                          (x[1][i + ld] \div (2^bs))
                          + ((Limb(x[1], i + ld + 1) % (2^bs)) * (2^(LimbBits - bs)))])
    [] op = "BShl" ->
         LET ld == x[2] \div LimbBits
             bs == x[2] % LimbBits
         IN  IF x[1] = <<>> THEN <<>>
             ELSE BNorm([i \in 1..(Len(x[1]) + ld) |->
                           IF i <= ld THEN 0 ELSE x[1][i - ld] * (2^bs)])
    [] op = "DivLimbs" ->
         (* x[1] divided by x[2], whose top limb is at least Base/2: x[3]     *)
         (* quotient limbs, each estimated from the top limbs (Knuth D)       *)
         IF x[3] = 0 THEN <<<<>>, x[1]>>
         ELSE LET Dj   == Zeros(x[3] - 1) \o x[2]
                  rtop == (Limb(x[1], Len(Dj) + 1) * Base) + Limb(x[1], Len(Dj))
                  qhat == Min(rtop \div x[2][Len(x[2])], Base - 1)
                  fits == {y \in Max(0, qhat - 2)..qhat :
                             ~BLess(x[1], BMul(Dj, BFromNat(y)))}
                  q    == CHOOSE y \in fits : \A z \in fits : z <= y
                  rest == DivLimbs(BSub(x[1], BMul(Dj, BFromNat(q))), x[2], x[3] - 1)
              IN  <<Append(rest[1], q), rest[2]>>
    [] op = "BDivMod" ->
         LET sh == LimbBits - IntBitLen(x[2][Len(x[2])])
             A  == BShl(x[1], sh)
             D  == BShl(x[2], sh)
             qr == DivLimbs(A, D, Max(0, Len(A) - Len(D) + 1))
         IN  <<Strip(qr[1]), BShr(qr[2], sh)>>
    [] op = "BPow" ->
         IF x[2] = 0 THEN <<1>>
         ELSE LET h  == BPow(x[1], x[2] \div 2)
                  sq == BMul(h, h)
              IN  IF (x[2] % 2) = 1 THEN BMul(sq, x[1]) ELSE sq
    [] op = "BFromNat" ->
         IF x[1] = 0 THEN <<>> ELSE <<x[1] % Base>> \o BFromNat(x[1] \div Base)
    [] op = "BToNat" ->
         IF x[1] = <<>> THEN 0 ELSE x[1][1] + (Base * BToNat(Tail(x[1])))
    [] op = "Canon" ->
         (* the float (-1)^x[1] * x[2] * 2^x[3] with its mantissa made odd *)
         LET tz == BTrailingZeros(x[2])
         IN  [s |-> x[1], m |-> BShr(x[2], tz), e |-> x[3] + tz]
    [] op = "Round" ->
         (* (-1)^x[1] * x[2] * 2^x[3] rounded to nearest, ties to even *)
         IF x[2] = <<>> THEN FZero
         ELSE LET drop == Max(BitLen(x[2]) - Precision, MinExp - x[3])
              IN  IF drop <= 0 THEN Canon(x[1], x[2], x[3])
                  ELSE LET q  == BShr(x[2], drop)
                           up == /\ BBit(x[2], drop - 1) = 1
                                 /\ (~BLowZero(x[2], drop - 1) \/ (Limb(q, 1) % 2) = 1)
                           r  == IF up THEN BAdd(q, <<1>>) ELSE q
                       IN  IF r = <<>> THEN FZero ELSE Canon(x[1], r, x[3] + drop)
    [] op = "FromInt" ->
         Round(IF x[1] < 0 THEN 1 ELSE 0, BFromNat(IF x[1] < 0 THEN -x[1] ELSE x[1]), 0)
    [] op = "MagLess" ->
         IF FIsZero(x[2]) THEN FALSE
         ELSE IF FIsZero(x[1]) THEN TRUE
         ELSE LET ta == BitLen(x[1].m) + x[1].e
                  tb == BitLen(x[2].m) + x[2].e
                  e  == Min(x[1].e, x[2].e)
              IN  IF ta # tb THEN ta < tb
                  ELSE BLess(BShl(x[1].m, x[1].e - e), BShl(x[2].m, x[2].e - e))
    [] op = "FLt" ->
         IF x[1].s = 1 /\ ~FIsZero(x[1])
         THEN (x[2].s = 0 \/ FIsZero(x[2])) \/ MagLess(x[2], x[1])
         ELSE (x[2].s = 0 /\ MagLess(x[1], x[2]))
    [] op = "FAdd" ->
         IF FIsZero(x[1]) THEN x[2]
         ELSE IF FIsZero(x[2]) THEN x[1]
         ELSE LET e == Min(x[1].e, x[2].e)
                  A == BShl(x[1].m, x[1].e - e)
                  B == BShl(x[2].m, x[2].e - e)
              IN  IF x[1].s = x[2].s THEN Round(x[1].s, BAdd(A, B), e)
                  ELSE IF BLess(A, B) THEN Round(x[2].s, BSub(B, A), e)
                  ELSE Round(x[1].s, BSub(A, B), e)
    [] op = "FMul" ->
         Round((x[1].s + x[2].s) % 2, BMul(x[1].m, x[2].m), x[1].e + x[2].e)
    [] op = "FDiv" ->
         IF FIsZero(x[1]) THEN FZero
         ELSE LET sh == Max(0, BitLen(x[2].m) + Precision + 2 - BitLen(x[1].m))
                  qr == BDivMod(BShl(x[1].m, sh), x[2].m)
                  M  == BAdd(BAdd(qr[1], qr[1]), IF qr[2] = <<>> THEN <<>> ELSE <<1>>)
              IN  Round((x[1].s + x[2].s) % 2, M, x[1].e - x[2].e - sh - 1)
    [] op = "FPow" ->
         Round((x[1].s * x[2]) % 2, BPow(x[1].m, x[2]), x[1].e * x[2])
    [] op = "Ceil" ->
         IF FIsZero(x[1]) THEN 0
         ELSE IF x[1].e >= 0
         THEN (IF x[1].s = 1 THEN -1 ELSE 1) * BToNat(BShl(x[1].m, x[1].e))
         ELSE IF x[1].s = 1 THEN -BToNat(BShr(x[1].m, -x[1].e))
         ELSE BToNat(BShr(x[1].m, -x[1].e)) + 1

Dec(n, d) == FDiv(FromInt(n), FromInt(d))

(* ---------------- mortgage.py ---------------- *)

None == <<>>
Some(v) == <<v>>
Val(o) == o[1]

Returned(v) == [raised |-> "", value |-> v]
Raise(exc) == [raised |-> exc, value |-> 0]

years_default == 30
num_annual_payments_default == 12

(* A LET operator's parameter names a value computed once, as a local      *)
(* variable of the Python function does.                                   *)
get_min_payment(mortgage_amount, annual_interest_rate, years, num_annual_payments) ==
  LET n == years * num_annual_payments
      line29(minimum_payment) == Returned(Ceil(minimum_payment))
      line27(r, growth, less1) ==
        IF FIsZero(less1) THEN Raise("ZeroDivisionError")
        ELSE line29(FDiv(FMul(FMul(mortgage_amount, r), growth), less1))
      line27growth(r, growth) == line27(r, growth, FSub(growth, FromInt(1)))
      line25(r) == line27growth(r, FPow(FAdd(FromInt(1), r), n))
  IN  IF num_annual_payments = 0 THEN Raise("ZeroDivisionError")
      ELSE line25(FDiv(annual_interest_rate, FromInt(num_annual_payments)))

interest_due(balance, annual_interest_rate, num_annual_payments) ==
  IF num_annual_payments = 0 THEN Raise("ZeroDivisionError")
  ELSE Returned(FMul(balance, FDiv(annual_interest_rate, FromInt(num_annual_payments))))

FMin(a, b) == IF FLt(b, a) THEN b ELSE a

(* Variant of line 69 that passes the caller's payments per year on. *)
caller_frequency_payment(balance, annual_interest_rate, num_annual_payments) ==
  get_min_payment(balance, annual_interest_rate, years_default, num_annual_payments)

no_target_payment(balance, annual_interest_rate, num_annual_payments) ==
  get_min_payment(balance, annual_interest_rate, years_default, num_annual_payments_default)

period_payment(balance, annual_interest_rate, target_payment, num_annual_payments, interest) ==
  LET as_float(m) == IF m.raised # "" THEN m ELSE Returned(FromInt(m.value))
  IN  IF target_payment = None
      THEN as_float(no_target_payment(balance, annual_interest_rate, num_annual_payments))
      ELSE Returned(FMin(Val(target_payment), FAdd(balance, interest)))

(* Variant of lines 152-161 whose years test is "years < 0". *)
ValueError_years_not_negative(a) ==
  IF FLt(a.mortgage_amount, FZero)
  THEN "mortgage amount must be positive"
  ELSE IF ~(FLe(FZero, a.annual_interest_rate) /\ FLe(a.annual_interest_rate, FromInt(1)))
  THEN "annual interest rate must be between 0 and 1"
  ELSE IF a.years < 0
  THEN "years must be positive"
  ELSE IF a.num_annual_payments < 0
  THEN "number of payments per year must be positive"
  ELSE IF a.target_payment # None /\ ~FIsZero(Val(a.target_payment))
          /\ FLt(Val(a.target_payment), FZero)
  THEN "target payment must be positive"
  ELSE ""

ValueError(a) ==
  IF FLt(a.mortgage_amount, FZero)
  THEN "mortgage amount must be positive"
  ELSE IF ~(FLe(FZero, a.annual_interest_rate) /\ FLe(a.annual_interest_rate, FromInt(1)))
  THEN "annual interest rate must be between 0 and 1"
  ELSE IF a.years < 1
  THEN "years must be positive"
  ELSE IF a.num_annual_payments < 0
  THEN "number of payments per year must be positive"
  ELSE IF a.target_payment # None /\ ~FIsZero(Val(a.target_payment))
          /\ FLt(Val(a.target_payment), FZero)
  THEN "target payment must be positive"
  ELSE ""

(* Variant of line 101 that compares with "<=". *)
not_above_minimum(target_payment, minimum_payment) == FLe(target_payment, FromInt(minimum_payment))

below_minimum(target_payment, minimum_payment) == FLt(target_payment, FromInt(minimum_payment))

Line(kind, amount, count) == [kind |-> kind, amount |-> amount, count |-> count]

(* ---------------- inputs ---------------- *)

MaxPayments == 24

CliArgs ==
  [entry : {"__main__"},
   mortgage_amount : {FromInt(-1), FZero, FromInt(1), FromInt(31)},
   annual_interest_rate : {Dec(-1, 100), FZero, Dec(4, 100), Dec(13, 100), Dec(150, 100)},
   years : {0, 1},
   num_annual_payments : {-1, 0, 1, 2},
   target_payment : {None, Some(FromInt(-1)), Some(FZero), Some(FromInt(33))}]
  \cup
  [entry : {"__main__"},
   mortgage_amount : {FromInt(1000)},
   annual_interest_rate : {Dec(50, 100), FromInt(1)},
   years : {54, 100},
   num_annual_payments : {1},
   target_payment : {None}]

MinPaymentArgs ==
  [entry : {"get_min_payment"},
   mortgage_amount : {FromInt(1), FromInt(31), FromInt(1000)},
   annual_interest_rate : {FZero, [s |-> 0, m |-> <<3>>, e |-> -54], Dec(4, 100),
                           Dec(13, 100), Dec(50, 100)},
   years : {1, 2},
   num_annual_payments : {1, 2}]

RemainingPaymentsArgs ==
  [entry : {"remaining_payments"},
   balance : {FromInt(-1), FZero, FromInt(100), FromInt(1000)},
   annual_interest_rate : {Dec(50, 100)},
   target_payment : {Some(FromInt(10)), Some(FromInt(600)),
                     Some(FAdd(FromInt(500), [s |-> 0, m |-> <<1>>, e |-> -44]))},
   num_annual_payments : {1}]
  \cup
  [entry : {"remaining_payments"},
   balance : {FromInt(1), FromInt(3)},
   annual_interest_rate : {FZero, Dec(75, 100)},
   target_payment : {None},
   num_annual_payments : {0, 1, 12}]

(* ---------------- state ---------------- *)

VARIABLES pc, args, out, exit_msg, raised, minimum_payment, target_payment,
          sim_calls, frame, balance, payments, interest_due_value, payment, result

vars == <<pc, args, out, exit_msg, raised, minimum_payment, target_payment,
          sim_calls, frame, balance, payments, interest_due_value, payment, result>>

main_vars == <<minimum_payment, target_payment, out>>
loop_vars == <<frame, balance, payments, interest_due_value, payment>>

Init ==
  /\ args \in CliArgs \cup MinPaymentArgs \cup RemainingPaymentsArgs
  /\ pc = args.entry
  /\ out = <<>>
  /\ exit_msg = ""
  /\ raised = ""
  /\ minimum_payment = None
  /\ target_payment = None
  /\ sim_calls = 0
  /\ frame = None
  /\ balance = FZero
  /\ payments = 0
  /\ interest_due_value = None
  /\ payment = None
  /\ result = None

(* __main__, lines 166-172: parse_args, then exit with the message or main *)
parse_args ==
  /\ pc = "__main__"
  /\ LET sys_exit(msg) == /\ exit_msg' = msg
                           /\ pc' = IF msg # "" THEN "exit" ELSE "main"
     IN  sys_exit(ValueError(args))
  /\ UNCHANGED <<args, raised, sim_calls, result>>
  /\ UNCHANGED main_vars
  /\ UNCHANGED loop_vars

(* main, lines 93-94 *)
main_minimum_payment ==
  /\ pc = "main"
  /\ LET line93(m) ==
           IF m.raised # ""
           THEN /\ pc' = "raised"
                /\ raised' = m.raised
                /\ UNCHANGED <<minimum_payment, out>>
           ELSE /\ pc' = "main_target"
                /\ minimum_payment' = Some(m.value)
                /\ out' = Append(out, Line("Minimum Payment", FromInt(m.value), 0))
                /\ UNCHANGED raised
     IN  line93(get_min_payment(args.mortgage_amount, args.annual_interest_rate,
                                args.years, args.num_annual_payments))
  /\ UNCHANGED <<args, exit_msg, target_payment, sim_calls, result>>
  /\ UNCHANGED loop_vars

effective_target ==
  IF args.target_payment = None THEN FromInt(Val(minimum_payment))
  ELSE Val(args.target_payment)

(* main, lines 97-102 *)
main_warn ==
  /\ pc = "main_target"
  /\ below_minimum(effective_target, Val(minimum_payment))
  /\ target_payment' = Some(effective_target)
  /\ out' = Append(out, Line("below minimum", effective_target, 0))
  /\ pc' = "done"
  /\ UNCHANGED <<args, exit_msg, raised, minimum_payment, sim_calls, result>>
  /\ UNCHANGED loop_vars

(* main, lines 97-105: the call of remaining_payments, line 62 *)
main_remaining_payments ==
  /\ pc = "main_target"
  /\ ~below_minimum(effective_target, Val(minimum_payment))
  /\ target_payment' = Some(effective_target)
  /\ sim_calls' = sim_calls + 1
  /\ frame' = Some([annual_interest_rate |-> args.annual_interest_rate,
                    target_payment |-> Some(effective_target),
                    num_annual_payments |-> args.num_annual_payments])
  /\ balance' = args.mortgage_amount
  /\ payments' = 0
  /\ pc' = "loop"
  /\ UNCHANGED <<args, exit_msg, raised, minimum_payment, out, result,
                 interest_due_value, payment>>

(* a direct call of remaining_payments, line 62 *)
call_remaining_payments ==
  /\ pc = "remaining_payments"
  /\ sim_calls' = sim_calls + 1
  /\ frame' = Some([annual_interest_rate |-> args.annual_interest_rate,
                    target_payment |-> args.target_payment,
                    num_annual_payments |-> args.num_annual_payments])
  /\ balance' = args.balance
  /\ payments' = 0
  /\ pc' = "loop"
  /\ UNCHANGED <<args, exit_msg, raised, result, interest_due_value, payment>>
  /\ UNCHANGED main_vars

(* remaining_payments, lines 64-75: one iteration of the loop *)
loop_iteration ==
  /\ pc = "loop"
  /\ FLt(FZero, balance)
  /\ payments < MaxPayments
  /\ LET f == Val(frame)
         line74(interest, p) ==
           IF p.raised # ""
           THEN /\ pc' = "raised"
                /\ raised' = p.raised
                /\ interest_due_value' = Some(interest)
                /\ UNCHANGED <<balance, payments, payment>>
           ELSE /\ interest_due_value' = Some(interest)
                /\ payment' = Some(p.value)
                /\ balance' = FSub(balance, FSub(p.value, interest))
                /\ payments' = payments + 1
                /\ UNCHANGED <<pc, raised>>
         line66(i) ==
           IF i.raised # ""
           THEN /\ pc' = "raised"
                /\ raised' = i.raised
                /\ UNCHANGED <<balance, payments, interest_due_value, payment>>
           ELSE line74(i.value,
                       period_payment(balance, f.annual_interest_rate, f.target_payment,
                                      f.num_annual_payments, i.value))
     IN  line66(interest_due(balance, f.annual_interest_rate, f.num_annual_payments))
  /\ UNCHANGED <<args, exit_msg, sim_calls, frame, result>>
  /\ UNCHANGED main_vars

(* remaining_payments, line 76, returning to main, line 106 *)
main_payoff ==
  /\ pc = "loop"
  /\ ~FLt(FZero, balance)
  /\ args.entry = "__main__"
  /\ result' = Some(payments)
  /\ out' = Append(out, Line("payoff", Val(target_payment), payments))
  /\ pc' = "done"
  /\ UNCHANGED <<args, exit_msg, raised, minimum_payment, target_payment, sim_calls>>
  /\ UNCHANGED loop_vars

(* remaining_payments, line 76, returning to a direct caller *)
return_remaining_payments ==
  /\ pc = "loop"
  /\ ~FLt(FZero, balance)
  /\ args.entry = "remaining_payments"
  /\ result' = Some(payments)
  /\ pc' = "returned"
  /\ UNCHANGED <<args, exit_msg, raised, sim_calls>>
  /\ UNCHANGED main_vars
  /\ UNCHANGED loop_vars

(* a direct call of get_min_payment, lines 8-29 *)
call_get_min_payment ==
  /\ pc = "get_min_payment"
  /\ LET return(m) ==
           IF m.raised # ""
           THEN pc' = "raised" /\ raised' = m.raised /\ UNCHANGED result
           ELSE pc' = "returned" /\ result' = Some(m.value) /\ UNCHANGED raised
     IN  return(get_min_payment(args.mortgage_amount, args.annual_interest_rate,
                                args.years, args.num_annual_payments))
  /\ UNCHANGED <<args, exit_msg, sim_calls>>
  /\ UNCHANGED main_vars
  /\ UNCHANGED loop_vars

Next ==
  \/ parse_args
  \/ main_minimum_payment
  \/ main_warn
  \/ main_remaining_payments
  \/ call_remaining_payments
  \/ loop_iteration
  \/ main_payoff
  \/ return_remaining_payments
  \/ call_get_min_payment

Spec == Init /\ [][Next]_vars

(* ---------------- properties ---------------- *)

IsMain == args.entry = "__main__"

Kinds(lines) == [i \in 1..Len(lines) |-> lines[i].kind]

(* C1: once main has settled its effective target, a target strictly below *)
(* the minimum payment means the warning is printed and remaining_payments *)
(* has not been called; a target at or above the minimum means             *)
(* remaining_payments has been called exactly once and no warning is       *)
(* printed.                                                                *)
C1_WarnOrSimulateOnce ==
  /\ (IsMain /\ target_payment = None) => sim_calls = 0
  /\ (IsMain /\ target_payment # None) =>
       /\ Val(target_payment) = IF args.target_payment = None
                                THEN FromInt(Val(minimum_payment))
                                ELSE Val(args.target_payment)
       /\ IF FLt(Val(target_payment), FromInt(Val(minimum_payment)))
          THEN /\ sim_calls = 0
               /\ pc = "done"
               /\ Kinds(out) = <<"Minimum Payment", "below minimum">>
          ELSE /\ sim_calls = 1
               /\ \A i \in 1..Len(out) : out[i].kind # "below minimum"

(* C1 case: a given target of 0 against a minimum payment of 33. *)
C1_Warned ==
  /\ IsMain
  /\ pc = "done"
  /\ args.target_payment = Some(FZero)
  /\ minimum_payment = Some(33)
  /\ sim_calls = 0
  /\ out[2].kind = "below minimum"

(* C2: with the minimum payment as the target, the number of payments the  *)
(* simulation returns is at most years * num_annual_payments (amount > 0,  *)
(* 0 < rate < 1, years >= 1, num_annual_payments >= 1).                    *)
C2_PayoffWithinTerm ==
  (/\ IsMain
   /\ pc = "done"
   /\ result # None
   /\ args.target_payment = None
   /\ FLt(FZero, args.mortgage_amount)
   /\ FLt(FZero, args.annual_interest_rate)
   /\ FLt(args.annual_interest_rate, FromInt(1))
   /\ args.years >= 1
   /\ args.num_annual_payments >= 1)
  => Val(result) <= args.years * args.num_annual_payments

(* C3: for amount > 0, 0 < rate < 1, years >= 1, num_annual_payments >= 1, *)
(* get_min_payment returns a positive integer that is at least             *)
(* amount / (years * num_annual_payments).                                 *)
C3_MinPaymentCoversPrincipal ==
  (/\ args.entry = "get_min_payment"
   /\ pc # "get_min_payment"
   /\ FLt(FZero, args.mortgage_amount)
   /\ FLt(FZero, args.annual_interest_rate)
   /\ FLt(args.annual_interest_rate, FromInt(1))
   /\ args.years >= 1
   /\ args.num_annual_payments >= 1)
  => /\ pc = "returned"
     /\ Val(result) > 0
     /\ FLe(args.mortgage_amount,
            FromInt(Val(result) * args.years * args.num_annual_payments))

(* C4: at rate 0 (amount > 0, years >= 1, num_annual_payments >= 1)        *)
(* get_min_payment returns ceil(amount / (years * num_annual_payments))    *)
(* and raises nothing.                                                     *)
C4_ZeroRateReturnsCeiling ==
  (/\ args.entry = "get_min_payment"
   /\ pc # "get_min_payment"
   /\ FLt(FZero, args.mortgage_amount)
   /\ FIsZero(args.annual_interest_rate)
   /\ args.years >= 1
   /\ args.num_annual_payments >= 1)
  => /\ pc = "returned"
     /\ raised = ""
     /\ result = Some(Ceil(FDiv(args.mortgage_amount,
                                FromInt(args.years * args.num_annual_payments))))

(* C5: once a period of remaining_payments has had a payment that is not   *)
(* above the interest due, the simulation has stopped with a raised        *)
(* condition and is not in its loop any more.                              *)
C5_TooLowPaymentIsReported ==
  (/\ frame # None
   /\ payment # None
   /\ interest_due_value # None
   /\ FLe(Val(payment), Val(interest_due_value)))
  => (pc # "loop" /\ raised # "")

(* C6: an argument set with a negative amount, a rate outside [0, 1],      *)
(* years < 1, negative payments per year or a negative target ends in      *)
(* sys.exit with the message before main has computed a minimum payment,   *)
(* simulated or printed anything; any other argument set passes on to      *)
(* main.                                                                   *)
C6_InvalidArgsRejected ==
  LET invalid ==
        \/ FLt(args.mortgage_amount, FZero)
        \/ FLt(args.annual_interest_rate, FZero)
        \/ FLt(FromInt(1), args.annual_interest_rate)
        \/ args.years < 1
        \/ args.num_annual_payments < 0
        \/ (args.target_payment # None /\ FLt(Val(args.target_payment), FZero))
  IN  (IsMain /\ pc # "__main__") =>
        IF invalid
        THEN /\ pc = "exit"
             /\ exit_msg # ""
             /\ out = <<>>
             /\ minimum_payment = None
             /\ sim_calls = 0
        ELSE /\ pc # "exit"
             /\ exit_msg = ""

(* C6 case: years = 0 with everything else valid is rejected. *)
C6_YearsRejected ==
  /\ IsMain
  /\ pc = "exit"
  /\ args.years = 0
  /\ args.mortgage_amount = FromInt(31)
  /\ args.annual_interest_rate = Dec(4, 100)
  /\ args.num_annual_payments = 1
  /\ args.target_payment = None
  /\ exit_msg = "years must be positive"

(* C7: after validation main never ends in an error; what it has printed   *)
(* starts with the "Minimum Payment" line as soon as main has passed line  *)
(* 94, and a finished run has printed exactly that line followed by the    *)
(* warning or the payoff line.                                             *)
C7_TwoLinesInOrder ==
  (IsMain /\ exit_msg = "") =>
    /\ pc # "raised"
    /\ pc \in {"main_target", "loop"} => Kinds(out) = <<"Minimum Payment">>
    /\ pc = "done" => \/ Kinds(out) = <<"Minimum Payment", "below minimum">>
                      \/ Kinds(out) = <<"Minimum Payment", "payoff">>

(* C8: a period whose payment is strictly above the interest due leaves    *)
(* the balance strictly smaller; and in a run of main, where the payment   *)
(* is at least the minimum payment, every period's payment is strictly     *)
(* above the interest due.                                                 *)
C8_BalanceStrictlyDecreases ==
  /\ [][(/\ pc = "loop"
         /\ payments' = payments + 1
         /\ FLt(Val(interest_due_value'), Val(payment')))
        => FLt(balance', balance)]_vars
  /\ []((IsMain /\ payment # None) => FLt(Val(interest_due_value), Val(payment)))

(* C9: with a target payment, after any period the balance is not          *)
(* negative, and it is exactly 0 when the loop has been left.              *)
C9_BalanceNeverNegative ==
  (/\ frame # None
   /\ Val(frame).target_payment # None
   /\ payments >= 1)
  => /\ ~FLt(balance, FZero)
     /\ pc \in {"done", "returned"} => FIsZero(balance)

(* C10: in a period of remaining_payments without a target payment, the    *)
(* payment is get_min_payment of the current balance and rate with 30      *)
(* years and 12 payments per year, the interest due is the balance times   *)
(* rate / the caller's num_annual_payments; and a call made by main always *)
(* carries a target payment.                                               *)
C10_NoTargetUsesFixedTerm ==
  /\ [][(/\ pc = "loop"
         /\ payments' = payments + 1
         /\ Val(frame).target_payment = None)
        => /\ payment' =
                Some(FromInt(get_min_payment(balance, Val(frame).annual_interest_rate,
                                             30, 12).value))
           /\ interest_due_value' =
                Some(FMul(balance, FDiv(Val(frame).annual_interest_rate,
                                        FromInt(Val(frame).num_annual_payments))))]_vars
  /\ []((IsMain /\ frame # None) => Val(frame).target_payment # None)

(* C10 case: remaining_payments(3, 0.75, None, 1) after its first period,  *)
(* which paid get_min_payment(3, 0.75, 30, 12) = 1 on interest of 2.25.    *)
C10_NoTargetPeriod ==
  /\ args.entry = "remaining_payments"
  /\ args.target_payment = None
  /\ args.balance = FromInt(3)
  /\ args.num_annual_payments = 1
  /\ payments = 1
  /\ payment = Some(FromInt(1))
  /\ interest_due_value = Some(Dec(225, 100))
  /\ balance = Dec(425, 100)

====
